---- MODULE Spec2Model ----
(***************************************************************************)
(* Project Samarth: the ETL job (et1.py) that fetches two data.gov.in      *)
(* datasets, cleans them with pandas and loads them into a DuckDB file,    *)
(* and the three query tools (agent.py) that read that file.               *)
(*                                                                         *)
(* Representation.                                                         *)
(*   - a string is a tuple of one-character strings, <<"p","b">>;          *)
(*   - Python None and pandas NaN in an object column are the one-element  *)
(*     tuples NoneVal and NaNVal, which no character string equals;        *)
(*   - a float64 cell is [nan |-> BOOLEAN, v |-> Int], v in tenths         *)
(*     (fixed point, one fractional digit): 2.5 is Num(25);                *)
(*   - a raw API record is a function from the keys it carries to cells.   *)
(***************************************************************************)
EXTENDS Integers, Sequences, FiniteSets, TLC

VARIABLES api, etl_pc, agri_records, climate_records, df_agri, df_climate,
          load_idx, runs, db, db_before, q

vars == <<api, etl_pc, agri_records, climate_records, df_agri, df_climate, load_idx, runs, db, db_before, q>>

etl_vars == <<etl_pc, agri_records, climate_records, df_agri, df_climate, load_idx, runs, db, db_before>>

(***************************************************************************)
(* Bounds of the model.                                                    *)
(***************************************************************************)
MaxRaw == 2

MaxRows == 2

MaxClimateRows == 2

MaxRuns == 2

MaxTopM == 2

(***************************************************************************)
(* Strings.                                                                *)
(***************************************************************************)
NoneVal == <<"None">>

NaNVal == <<"NaN">>

IsNull(c) == c = NoneVal \/ c = NaNVal

UpperCase == ("p" :> "P") @@ ("b" :> "B") @@ ("h" :> "H") @@ ("r" :> "R") @@ ("i" :> "I") @@ ("w" :> "W") @@ ("a" :> "A") @@ ("k" :> "K") @@ ("x" :> "X")

IsLower(c) == c \in DOMAIN UpperCase

IsUpper(c) == \E l \in DOMAIN UpperCase : UpperCase[l] = c

IsCased(c) == IsLower(c) \/ IsUpper(c)

ToUpper(c) == IF IsLower(c) THEN UpperCase[c] ELSE c

ToLower(c) == IF IsUpper(c) THEN CHOOSE l \in DOMAIN UpperCase : UpperCase[l] = c ELSE c

LowerStr(s) == [i \in 1..Len(s) |-> ToLower(s[i])]

IsSpace(c) == c = " "

RECURSIVE LStrip(_)
LStrip(s) == IF s # <<>> /\ IsSpace(Head(s)) THEN LStrip(Tail(s)) ELSE s

RECURSIVE RStrip(_)
RStrip(s) == IF s # <<>> /\ IsSpace(s[Len(s)]) THEN RStrip(SubSeq(s, 1, Len(s) - 1)) ELSE s

\* str.strip(): leading and trailing whitespace removed.
Strip(s) == RStrip(LStrip(s))

\* str.title(): a cased character is upper-cased after an uncased one (or at the
\* start) and lower-cased after a cased one.
Title(s) == [i \in 1..Len(s) |-> IF ~IsCased(s[i]) THEN s[i] ELSE IF i > 1 /\ IsCased(s[i - 1]) THEN ToLower(s[i]) ELSE ToUpper(s[i])]

\* Series.str.strip().str.title() on an object column: a null cell stays null.
StripTitle(c) == IF IsNull(c) THEN NaNVal ELSE Title(Strip(c))

(***************************************************************************)
(* Numbers.                                                                *)
(***************************************************************************)
NaN == [nan |-> TRUE, v |-> 0]

Num(n) == [nan |-> FALSE, v |-> n]

DigitVal == ("0" :> 0) @@ ("1" :> 1) @@ ("2" :> 2) @@ ("3" :> 3) @@ ("4" :> 4) @@ ("5" :> 5) @@ ("6" :> 6) @@ ("7" :> 7) @@ ("8" :> 8) @@ ("9" :> 9)

IsDigits(s) == Len(s) > 0 /\ \A i \in 1..Len(s) : s[i] \in DOMAIN DigitVal

RECURSIVE IntOf(_)
IntOf(s) == IF s = <<>> THEN 0 ELSE 10 * IntOf(SubSeq(s, 1, Len(s) - 1)) + DigitVal[s[Len(s)]]

\* pd.to_numeric(..., errors='coerce') of one cell, in tenths: digits, or digits
\* "." digit; anything else, and a null cell, is NaN.
to_numeric(c) ==
    IF IsNull(c) THEN NaN
    ELSE IF IsDigits(c) THEN Num(10 * IntOf(c))
    ELSE IF Len(c) >= 3 /\ c[Len(c) - 1] = "." /\ IsDigits(SubSeq(c, 1, Len(c) - 2)) /\ c[Len(c)] \in DOMAIN DigitVal
         THEN Num(10 * IntOf(SubSeq(c, 1, Len(c) - 2)) + DigitVal[c[Len(c)]])
    ELSE NaN

\* Series.astype(int) of a non-negative float: the fraction is dropped.
astype_int(x) == x.v \div 10

(***************************************************************************)
(* pandas frames.                                                          *)
(***************************************************************************)
Range(s) == {s[i] : i \in 1..Len(s)}

\* pd.DataFrame(records): the columns are the keys any record carries; a record
\* without a key has NaN there.
Columns(records) == UNION {DOMAIN records[i] : i \in 1..Len(records)}

Cell(r, k) == IF k \in DOMAIN r THEN r[k] ELSE NaNVal

Raised == [raised |-> TRUE, rows |-> <<>>]

Returned(rows) == [raised |-> FALSE, rows |-> rows]

NoFrame == [raised |-> FALSE, rows |-> <<>>]

AgriRawColumns == {"state_name", "district_name", "crop", "crop_year", "season", "area_", "production_"}

\* A dropna() that forgets production_tonnes.
AgriDropnaSubsetNoProduction == {"year", "state", "district", "crop"}

\* The subset of columns dropna() looks at.
AgriDropnaSubset == {"year", "production_tonnes", "state", "district", "crop"}

AgriRowIsNull(r, col) ==
    CASE col = "year" -> r.year.nan
      [] col = "production_tonnes" -> r.production_tonnes.nan
      [] col = "state" -> IsNull(r.state)
      [] col = "district" -> IsNull(r.district)
      [] col = "crop" -> IsNull(r.crop)
      [] OTHER -> FALSE

AgriKeep(r) == \A col \in AgriDropnaSubset : ~AgriRowIsNull(r, col)

transform_agri_data(records, source_url) ==
    IF ~(AgriRawColumns \subseteq Columns(records)) THEN Raised
    ELSE LET renamed == [i \in 1..Len(records) |->
                 [index |-> i,
                  state |-> Cell(records[i], "state_name"),
                  district |-> Cell(records[i], "district_name"),
                  crop |-> Cell(records[i], "crop"),
                  year |-> to_numeric(Cell(records[i], "crop_year")),
                  season |-> Cell(records[i], "season"),
                  area_hectare |-> Cell(records[i], "area_"),
                  production_tonnes |-> to_numeric(Cell(records[i], "production_")),
                  source_url |-> source_url]]
             kept == SelectSeq(renamed, AgriKeep)
         IN Returned([i \in 1..Len(kept) |->
                 [kept[i] EXCEPT !.year = astype_int(kept[i].year),
                                 !.state = StripTitle(kept[i].state),
                                 !.district = StripTitle(kept[i].district),
                                 !.crop = StripTitle(kept[i].crop)]])

month_columns_raw == <<"jan", "feb", "mar", "apr", "may", "jun", "jul", "aug", "sep", "oct", "nov", "dec">>

ClimateIdVars == {"subdivision", "year"}

\* A dropna() that forgets rainfall_mm.
ClimateDropnaSubsetNoRainfall == {"year", "subdivision"}

\* The subset of columns dropna() looks at.
ClimateDropnaSubset == {"year", "rainfall_mm", "subdivision"}

ClimateRowIsNull(r, col) ==
    CASE col = "year" -> r.year.nan
      [] col = "rainfall_mm" -> r.rainfall_mm.nan
      [] col = "subdivision" -> IsNull(r.subdivision)
      [] OTHER -> FALSE

ClimateKeep(r) == \A col \in ClimateDropnaSubset : ~ClimateRowIsNull(r, col)

\* DataFrame.melt: one row per (value column, input row), the value columns in
\* the order given and the input rows in order within each; the index is new.
melt(records) ==
    LET n == Len(records)
    IN [j \in 1..(Len(month_columns_raw) * n) |->
           LET m == ((j - 1) \div n) + 1
               i == ((j - 1) % n) + 1
           IN [index |-> j,
               subdivision |-> Cell(records[i], "subdivision"),
               year |-> Cell(records[i], "year"),
               month |-> month_columns_raw[m],
               rainfall_mm |-> to_numeric(Cell(records[i], month_columns_raw[m]))]]

transform_climate_data(records, source_url) ==
    IF ~((ClimateIdVars \cup Range(month_columns_raw)) \subseteq Columns(records)) THEN Raised
    ELSE LET tidy == [j \in 1..Len(melt(records)) |->
                 [index |-> melt(records)[j].index,
                  subdivision |-> melt(records)[j].subdivision,
                  year |-> to_numeric(melt(records)[j].year),
                  month |-> melt(records)[j].month,
                  rainfall_mm |-> melt(records)[j].rainfall_mm,
                  source_url |-> source_url]]
             kept == SelectSeq(tidy, ClimateKeep)
         IN Returned([j \in 1..Len(kept) |->
                 [kept[j] EXCEPT !.year = astype_int(kept[j].year),
                                 !.subdivision = StripTitle(kept[j].subdivision)]])

(***************************************************************************)
(* The remote API and fetch_data.                                          *)
(***************************************************************************)
AgriUrl == "https://data.gov.in/resource/district-wise-season-wise-crop-production-statistics-1997"

ClimateUrl == "https://www.data.gov.in/resource/sub-divisional-monthly-rainfall-1901-2017"

\* What requests.get and response.json() can give for a dataset whose records
\* are `feed`: a connection error or timeout, a non-success status, a JSON body
\* without 'records', or the records.
Responses(feed) ==
    {[error |-> TRUE, status_ok |-> FALSE, has_records |-> FALSE, records |-> <<>>],
     [error |-> FALSE, status_ok |-> FALSE, has_records |-> FALSE, records |-> <<>>],
     [error |-> FALSE, status_ok |-> TRUE, has_records |-> FALSE, records |-> <<>>],
     [error |-> FALSE, status_ok |-> TRUE, has_records |-> TRUE, records |-> feed]}

PyNone == [is_none |-> TRUE, records |-> <<>>]

PyList(records) == [is_none |-> FALSE, records |-> records]

fetch_data(response) ==
    IF response.error \/ ~response.status_ok THEN PyNone
    ELSE IF ~response.has_records THEN PyNone
    ELSE PyList(response.records)

\* Python truth value of fetch_data's result: None and the empty list are false.
Truthy(x) == ~x.is_none /\ Len(x.records) > 0

(***************************************************************************)
(* The DuckDB file.                                                        *)
(***************************************************************************)
TableNames == <<"agriculture_production", "climate_rainfall">>

NoTable == [exists |-> FALSE, rows |-> <<>>]

EmptyDb == [t \in Range(TableNames) |-> NoTable]

\* SELECT * FROM temp_df: the frame's columns, without its index.
AgriTableRow(r) == [state |-> r.state, district |-> r.district, crop |-> r.crop, year |-> r.year, season |-> r.season, area_hectare |-> r.area_hectare, production_tonnes |-> r.production_tonnes, source_url |-> r.source_url]

ClimateTableRow(r) == [subdivision |-> r.subdivision, year |-> r.year, month |-> r.month, rainfall_mm |-> r.rainfall_mm, source_url |-> r.source_url]

AgriTable(df) == [exists |-> TRUE, rows |-> [i \in 1..Len(df.rows) |-> AgriTableRow(df.rows[i])]]

ClimateTable(df) == [exists |-> TRUE, rows |-> [i \in 1..Len(df.rows) |-> ClimateTableRow(df.rows[i])]]

\* A load that inserts into the table it finds instead of replacing it.
CreateOrAppend(old, new) == [exists |-> TRUE, rows |-> old.rows \o new.rows]

\* CREATE OR REPLACE TABLE t AS SELECT * FROM temp_df.
CreateOrReplace(old, new) == new

(***************************************************************************)
(* The ETL job: et1.py run as a script.                                    *)
(***************************************************************************)
QIdle == [fn |-> "none", pc |-> "idle", con |-> "none", fault |-> "none", state |-> <<>>, crop_name |-> <<>>, subdivision |-> <<>>, year |-> 0, end_year |-> 0, top_m |-> 0, stmts |-> 0, result |-> <<>>, result2 |-> <<>>, ret |-> [kind |-> "none", records |-> <<>>, state |-> <<>>, year |-> 0]]

InitWith(feeds_agri, feeds_climate) ==
    /\ api \in [agriculture : feeds_agri, climate : feeds_climate]
    /\ etl_pc = "fetch_agri"
    /\ agri_records = PyNone
    /\ climate_records = PyNone
    /\ df_agri = NoFrame
    /\ df_climate = NoFrame
    /\ load_idx = 1
    /\ runs = 1
    /\ db = EmptyDb
    /\ db_before = EmptyDb
    /\ q = QIdle

\* agri_records = fetch_data(...)
FetchAgri ==
    /\ etl_pc = "fetch_agri"
    /\ \E response \in Responses(api.agriculture) : agri_records' = fetch_data(response)
    /\ etl_pc' = "fetch_climate"
    /\ UNCHANGED <<api, climate_records, df_agri, df_climate, load_idx, runs, db, db_before, q>>

\* climate_records = fetch_data(...)
FetchClimate ==
    /\ etl_pc = "fetch_climate"
    /\ \E response \in Responses(api.climate) : climate_records' = fetch_data(response)
    /\ etl_pc' = "check"
    /\ UNCHANGED <<api, agri_records, df_agri, df_climate, load_idx, runs, db, db_before, q>>

\* A check that goes on when either dataset arrived.
EitherFetched == Truthy(agri_records) \/ Truthy(climate_records)

\* if agri_records and climate_records: ... else: print("ETL process failed")
BothFetched == Truthy(agri_records) /\ Truthy(climate_records)

CheckFetched ==
    /\ etl_pc = "check"
    /\ etl_pc' = IF BothFetched THEN "transform_agri" ELSE "aborted"
    /\ UNCHANGED <<api, agri_records, climate_records, df_agri, df_climate, load_idx, runs, db, db_before, q>>

\* df_agri = transform_agri_data(...); an exception ends the script.
TransformAgri ==
    /\ etl_pc = "transform_agri"
    /\ df_agri' = transform_agri_data(agri_records.records, AgriUrl)
    /\ etl_pc' = IF df_agri'.raised THEN "crashed" ELSE "transform_climate"
    /\ UNCHANGED <<api, agri_records, climate_records, df_climate, load_idx, runs, db, db_before, q>>

\* df_climate = transform_climate_data(...)
TransformClimate ==
    /\ etl_pc = "transform_climate"
    /\ df_climate' = transform_climate_data(climate_records.records, ClimateUrl)
    /\ etl_pc' = IF df_climate'.raised THEN "crashed" ELSE "load"
    /\ load_idx' = 1
    /\ UNCHANGED <<api, agri_records, climate_records, df_agri, runs, db, db_before, q>>

\* The dict handed to load_to_duckdb, in its insertion order.
Dataframes == [t \in Range(TableNames) |-> IF t = "agriculture_production" THEN AgriTable(df_agri) ELSE ClimateTable(df_climate)]

\* A failing statement that has already dropped the table it replaces.
StatementFailsAfterDrop(old, new) == NoTable

\* A failing CREATE OR REPLACE leaves the table as it was.
StatementFails(old, new) == old

\* One iteration of load_to_duckdb's loop: the statement commits on its own
\* (no BEGIN is issued), or it fails and the exception leaves the function.
LoadTable ==
    /\ etl_pc = "load"
    /\ load_idx <= Len(TableNames)
    /\ LET t == TableNames[load_idx]
       IN \/ /\ db' = [db EXCEPT ![t] = CreateOrReplace(db[t], Dataframes[t])]
             /\ load_idx' = load_idx + 1
             /\ etl_pc' = IF load_idx = Len(TableNames) THEN "done" ELSE "load"
          \/ /\ db' = [db EXCEPT ![t] = StatementFails(db[t], Dataframes[t])]
             /\ load_idx' = load_idx
             /\ etl_pc' = "load_failed"
    /\ UNCHANGED <<api, agri_records, climate_records, df_agri, df_climate, runs, db_before, q>>

EtlEnded == etl_pc \in {"done", "aborted", "crashed", "load_failed"}

\* The script is run again, against whatever the API serves by then.
Rerun(feeds_agri, feeds_climate) ==
    /\ EtlEnded
    /\ runs < MaxRuns
    /\ api' \in [agriculture : feeds_agri, climate : feeds_climate]
    /\ etl_pc' = "fetch_agri"
    /\ agri_records' = PyNone
    /\ climate_records' = PyNone
    /\ df_agri' = NoFrame
    /\ df_climate' = NoFrame
    /\ load_idx' = 1
    /\ runs' = runs + 1
    /\ db_before' = db
    /\ UNCHANGED <<db, q>>

EtlRun == FetchAgri \/ FetchClimate \/ CheckFetched \/ TransformAgri \/ TransformClimate \/ LoadTable

(***************************************************************************)
(* Inputs.                                                                 *)
(***************************************************************************)
Restrict(f, keys) == [k \in keys |-> f[k]]

SeqsUpTo(S, n) == UNION {[1..k -> S] : k \in 0..n}

AgriBase == [state_name |-> <<" ", "p", "B">>, district_name |-> <<"a", "b", " ">>, crop |-> <<"r", "i">>, crop_year |-> <<"1", "0">>, season |-> <<"k">>, area_ |-> <<"1">>, production_ |-> <<"5">>]

\* Raw agriculture records as the API may give them: years and productions that
\* parse, that do not, that are null, and records without a key.
AgriRawWide ==
    {[AgriBase EXCEPT !.crop_year = y, !.production_ = p] :
        y \in {<<"1", "0">>, <<"1", "0", ".", "5">>, <<"1", "x">>, NoneVal},
        p \in {<<"5">>, <<"2", ".", "5">>, <<"x">>, NoneVal}}
    \cup {[AgriBase EXCEPT !.state_name = NoneVal], [AgriBase EXCEPT !.crop = NoneVal], [AgriBase EXCEPT !.district_name = NoneVal]}
    \cup {Restrict(AgriBase, DOMAIN AgriBase \ {k}) : k \in {"crop_year", "production_", "season"}}

ClimateRow(sub, year, rain) == [k \in ClimateIdVars \cup Range(month_columns_raw) |-> IF k = "subdivision" THEN sub ELSE IF k = "year" THEN year ELSE rain[k]]

\* Monthly readings: 2.5 mm everywhere but "NA" in the months of `bad`.
RainWithNA(bad) == [m \in Range(month_columns_raw) |-> IF m \in bad THEN <<"N", "A">> ELSE <<"2", ".", "5">>]

ClimateRawWide ==
    {ClimateRow(<<" ", "p", "B">>, <<"1", "0">>, RainWithNA(bad)) : bad \in SUBSET {"jan", "dec"}}
    \cup {ClimateRow(<<"h", "r">>, <<"1", "1">>, RainWithNA({}))}
    \cup {ClimateRow(<<"h", "r">>, y, RainWithNA({})) : y \in {<<"1", "x">>, NoneVal}}
    \cup {ClimateRow(NoneVal, <<"1", "0">>, RainWithNA({}))}
    \cup {Restrict(ClimateRow(<<"h", "r">>, <<"1", "0">>, RainWithNA({})), (ClimateIdVars \cup Range(month_columns_raw)) \ {"jun"})}

AgriFeedOne == <<AgriBase>>

ClimateFeedOne == <<ClimateRow(<<"p", "b">>, <<"1", "0">>, RainWithNA({}))>>

(***************************************************************************)
(* Specifications of the ETL job.                                          *)
(***************************************************************************)
InitTransformAgri == InitWith(SeqsUpTo(AgriRawWide, MaxRaw), {ClimateFeedOne})

SpecTransformAgri == InitTransformAgri /\ [][EtlRun]_vars

InitTransformClimate == InitWith({AgriFeedOne}, SeqsUpTo(ClimateRawWide, MaxClimateRows))

SpecTransformClimate == InitTransformClimate /\ [][EtlRun]_vars

(***************************************************************************)
(* Claims about the transforms.                                            *)
(***************************************************************************)
\* The texts of this model's inputs that are numbers, with the integer a year
\* of that text denotes (written out, not computed by to_numeric).
NumericTexts == {<<"1", "0">>, <<"1", "1">>, <<"1", "0", ".", "5">>, <<"5">>, <<"2", ".", "5">>, <<"1">>, <<"7", ".", "5">>}

YearOfText(t) == IF t = <<"1", "1">> THEN 11 ELSE 10

Missing(r, k) == k \notin DOMAIN r \/ r[k] = NoneVal

MissingOrUnparsable(r, k) == Missing(r, k) \/ r[k] \notin NumericTexts

AgriTransformed == etl_pc \in {"transform_climate", "load", "done", "load_failed"}

AgriRowsOf(i) == {j \in 1..Len(df_agri.rows) : df_agri.rows[j].index = i}

AgriRecordDropped(r) ==
    \/ MissingOrUnparsable(r, "crop_year")
    \/ MissingOrUnparsable(r, "production_")
    \/ Missing(r, "state_name") \/ Missing(r, "district_name") \/ Missing(r, "crop")

\* C2: every row transform_agri_data returns has an integer year, a numeric
\* production_tonnes and a state, district and crop; a record whose crop_year or
\* production_ is missing or does not parse has no output row, and every other
\* record with state, district and crop has exactly one.
C2_TransformAgriRows ==
    AgriTransformed =>
        /\ \A j \in 1..Len(df_agri.rows) :
              LET row == df_agri.rows[j]
              IN /\ row.year \in Nat
                 /\ row.year = YearOfText(agri_records.records[row.index].crop_year)
                 /\ ~row.production_tonnes.nan
                 /\ ~IsNull(row.state) /\ ~IsNull(row.district) /\ ~IsNull(row.crop)
        /\ \A i \in 1..Len(agri_records.records) :
              Cardinality(AgriRowsOf(i)) = IF AgriRecordDropped(agri_records.records[i]) THEN 0 ELSE 1

\* A run that transformed two records, dropped one and kept the other.
C2_Witness ==
    /\ AgriTransformed
    /\ Len(agri_records.records) = 2
    /\ Len(df_agri.rows) = 1
    /\ AgriRecordDropped(agri_records.records[1])

ClimateTransformed == etl_pc \in {"load", "done", "load_failed"}

\* The input row an output row of melt comes from.
ClimateSourceRow(row) == ((row.index - 1) % Len(climate_records.records)) + 1

ClimateRowsOf(i, m) == {j \in 1..Len(df_climate.rows) : ClimateSourceRow(df_climate.rows[j]) = i /\ df_climate.rows[j].month = m}

ClimateCellDropped(r, m) == MissingOrUnparsable(r, "year") \/ Missing(r, "subdivision") \/ MissingOrUnparsable(r, m)

ClimateRowsCarryIds ==
    \A j \in 1..Len(df_climate.rows) :
        LET row == df_climate.rows[j]
            src == climate_records.records[ClimateSourceRow(row)]
        IN /\ row.year = YearOfText(src.year)
           /\ row.subdivision = Title(Strip(src.subdivision))

ClimateIdsPresent == \A i \in 1..Len(climate_records.records) : ~MissingOrUnparsable(climate_records.records[i], "year") /\ ~Missing(climate_records.records[i], "subdivision")

\* C3 as stated, for input rows that have a subdivision and a year: one output
\* row per (input row, month) pair, so exactly 12 for a single input row, each
\* with the row's normalized subdivision and year.
C3_OneRowPerPair ==
    (ClimateTransformed /\ ClimateIdsPresent) =>
        /\ \A i \in 1..Len(climate_records.records) : \A m \in Range(month_columns_raw) : Cardinality(ClimateRowsOf(i, m)) = 1
        /\ (Len(climate_records.records) = 1 => Len(df_climate.rows) = 12)
        /\ ClimateRowsCarryIds

\* C3, amended: one output row per (input row, month) pair whose year parses,
\* whose subdivision is present and whose reading for that month is a number,
\* and none for any other pair; a single input row with all of them present
\* gives exactly 12 rows, each with the row's normalized subdivision and year.
C3_OneRowPerPresentPair ==
    ClimateTransformed =>
        /\ \A i \in 1..Len(climate_records.records) : \A m \in Range(month_columns_raw) :
              Cardinality(ClimateRowsOf(i, m)) = IF ClimateCellDropped(climate_records.records[i], m) THEN 0 ELSE 1
        /\ (Len(climate_records.records) = 1 /\ (\A m \in Range(month_columns_raw) : ~ClimateCellDropped(climate_records.records[1], m))
              => Len(df_climate.rows) = 12)
        /\ ClimateRowsCarryIds

\* A single complete input row, reshaped into 12 rows.
C3_Witness ==
    /\ ClimateTransformed
    /\ Len(climate_records.records) = 1
    /\ Len(df_climate.rows) = 12
    /\ {df_climate.rows[j].month : j \in 1..12} = Range(month_columns_raw)

AgriFeedsSmall == {AgriFeedOne, <<[AgriBase EXCEPT !.crop = <<"w", "h">>, !.production_ = <<"2", ".", "5">>]>>, <<AgriBase, [AgriBase EXCEPT !.crop_year = <<"1", "x">>]>>}

ClimateFeedsSmall == {ClimateFeedOne, <<ClimateRow(<<"h", "r">>, <<"1", "1">>, RainWithNA({"jan"}))>>, <<Restrict(ClimateFeedOne[1], ClimateIdVars)>>}

InitETL == InitWith(AgriFeedsSmall, ClimateFeedsSmall)

NextETL == EtlRun \/ Rerun(AgriFeedsSmall, ClimateFeedsSmall)

SpecETL == InitETL /\ [][NextETL]_vars

(***************************************************************************)
(* Claims about the ETL job.                                               *)
(***************************************************************************)
\* C6: when a load has gone through, each table holds exactly the rows of that
\* run's frame, whatever an earlier run had loaded.
C6_FullReplace ==
    etl_pc = "done" =>
        /\ db["agriculture_production"].exists
        /\ db["agriculture_production"].rows = [i \in 1..Len(df_agri.rows) |-> AgriTableRow(df_agri.rows[i])]
        /\ db["climate_rainfall"].exists
        /\ db["climate_rainfall"].rows = [i \in 1..Len(df_climate.rows) |-> ClimateTableRow(df_climate.rows[i])]

\* A second load over tables that an earlier run had filled with other rows.
C6_Witness ==
    /\ etl_pc = "done"
    /\ runs = 2
    /\ db_before["agriculture_production"].exists
    /\ db_before["climate_rainfall"].exists
    /\ db_before["agriculture_production"].rows # db["agriculture_production"].rows
    /\ db_before["climate_rainfall"].rows # db["climate_rainfall"].rows

FetchesDone == etl_pc \notin {"fetch_agri", "fetch_climate", "check"}

\* C7: once both fetches are made, a run in which either returned None is
\* aborted: nothing was transformed and both tables are as the run found them.
C7_FetchFailureAborts ==
    (FetchesDone /\ (agri_records.is_none \/ climate_records.is_none)) =>
        /\ etl_pc = "aborted"
        /\ df_agri = NoFrame
        /\ df_climate = NoFrame
        /\ db = db_before

\* A run aborted by the second fetch alone, over tables of an earlier run.
C7_Witness ==
    /\ etl_pc = "aborted"
    /\ ~agri_records.is_none
    /\ climate_records.is_none
    /\ db_before["agriculture_production"].exists
    /\ db = db_before

\* C10: the tables are replaced one at a time in the mapping's order; when a
\* replacement fails, the tables before it hold this run's rows and the failing
\* table and those after it hold what they held when the run began.
C10_PartialLoad ==
    etl_pc \in {"load", "load_failed"} =>
        \A k \in 1..Len(TableNames) :
            db[TableNames[k]] = IF k < load_idx THEN Dataframes[TableNames[k]] ELSE db_before[TableNames[k]]

\* A database of mixed generations: the first table of this run, the second of
\* the run before.
C10_Witness ==
    /\ etl_pc = "load_failed"
    /\ load_idx = 2
    /\ db_before["agriculture_production"].exists
    /\ db["agriculture_production"] # db_before["agriculture_production"]
    /\ db["climate_rainfall"].exists
    /\ db["climate_rainfall"] = db_before["climate_rainfall"]
    /\ db["climate_rainfall"] # Dataframes["climate_rainfall"]

(***************************************************************************)
(* SQL as DuckDB evaluates it.                                             *)
(***************************************************************************)
\* s LIKE p: % matches any run of characters, _ any one character.
RECURSIVE Like(_, _)
Like(s, p) ==
    IF p = <<>> THEN s = <<>>
    ELSE IF Head(p) = "%" THEN Like(s, Tail(p)) \/ (s # <<>> /\ Like(Tail(s), p))
    ELSE s # <<>> /\ (Head(p) = "_" \/ Head(p) = Head(s)) /\ Like(Tail(s), Tail(p))

\* An ILIKE that compares case as it stands.
LikeCaseSensitive(s, p) == Like(s, p)

\* s ILIKE p: LIKE without regard to case.
ILike(s, p) == Like(LowerStr(s), LowerStr(p))

RECURSIVE SumSeq(_)
SumSeq(s) == IF s = <<>> THEN 0 ELSE Head(s) + SumSeq(Tail(s))

\* CAST(x AS INTEGER) of a non-negative DOUBLE, x in tenths: rounded to the
\* nearest integer, a half to the even one.
CastInteger(x) ==
    LET whole == x \div 10
        frac == x % 10
    IN IF frac < 5 THEN whole
       ELSE IF frac > 5 THEN whole + 1
       ELSE IF whole % 2 = 0 THEN whole ELSE whole + 1

SqlNull == "NULL"

\* ANY_VALUE(source_url) of a group.
AnyValue(S) == IF S = {} THEN SqlNull ELSE CHOOSE x \in S : TRUE

RECURSIVE Gcd(_, _)
Gcd(a, b) == IF b = 0 THEN a ELSE Gcd(b, a % b)

CountQuotes(s) == Cardinality({i \in 1..Len(s) : s[i] = "'"})

\* A text spliced between the quotes of '{...}' leaves a literal open when it
\* carries an odd number of quotes (no comment marker is in the alphabet).
Malformed(text) == CountQuotes(text) % 2 = 1

Min(a, b) == IF a <= b THEN a ELSE b

(***************************************************************************)
(* get_top_crops_by_production.                                            *)
(***************************************************************************)
\* WHERE state ILIKE '{state}' AND CAST(year AS INTEGER) = {year}
TopCropsWhere(rows, state, year) == SelectSeq(rows, LAMBDA r : ILike(r.state, state) /\ r.year = year)

RowsOfCrop(matched, crop) == SelectSeq(matched, LAMBDA r : r.crop = crop)

\* SUM(CAST(production_tonnes AS DOUBLE)) of a group, in tenths.
CropSum(matched, crop) == SumSeq([i \in 1..Len(RowsOfCrop(matched, crop)) |-> RowsOfCrop(matched, crop)[i].production_tonnes.v])

CropRecord(matched, crop) == [crop |-> crop, total_production |-> CastInteger(CropSum(matched, crop)), source_url |-> AnyValue({r.source_url : r \in Range(RowsOfCrop(matched, crop))})]

\* An ORDER BY that sorts ascending.
OrderedAsc(recs) == \A i, j \in 1..Len(recs) : i < j => recs[i].total_production <= recs[j].total_production

\* ORDER BY total_production DESC: the order among equal totals is the engine's.
OrderedDesc(recs) == \A i, j \in 1..Len(recs) : i < j => recs[i].total_production >= recs[j].total_production

\* LIMIT {top_m}
Limit(recs, top_m) == SubSeq(recs, 1, Min(top_m, Len(recs)))

\* The statement is bound to fail: the table is not there, or the text does
\* not parse.
TopCropsFails(table, state, year) == ~table.exists \/ Malformed(state)

\* Every result the SELECT may give.
TopCropsResults(table, state, year, top_m) ==
    LET matched == TopCropsWhere(table.rows, state, year)
        crops == {r.crop : r \in Range(matched)}
        groups == {CropRecord(matched, c) : c \in crops}
        orders == {f \in [1..Cardinality(crops) -> groups] : (\A i, j \in DOMAIN f : i # j => f[i] # f[j]) /\ OrderedDesc(f)}
    IN {Limit(f, top_m) : f \in orders}

MakeRet(kind, records, state, year) == [kind |-> kind, records |-> records, state |-> state, year |-> year]

\* if result.empty: return f"No production data found for {state} in {year}."
\* return result.to_json(orient="records")
TopCropsFormat(result, state, year) ==
    IF result = <<>> THEN MakeRet("no_data", <<>>, state, year)
    ELSE MakeRet("json", result, <<>>, 0)

(***************************************************************************)
(* get_average_annual_rainfall.                                            *)
(***************************************************************************)
\* WHERE subdivision ILIKE '{subdivision}' AND year BETWEEN {start_year} AND {end_year}
RainWhere(rows, subdivision, start_year, end_year) == SelectSeq(rows, LAMBDA r : ILike(r.subdivision, subdivision) /\ start_year <= r.year /\ r.year <= end_year)

RowsOfYear(matched, year) == SelectSeq(matched, LAMBDA r : r.year = year)

\* SUM(rainfall_mm) of one year's group, in tenths.
YearTotal(matched, year) == SumSeq([i \in 1..Len(RowsOfYear(matched, year)) |-> RowsOfYear(matched, year)[i].rainfall_mm.v])

RECURSIVE SumYearTotals(_, _)
SumYearTotals(matched, years) ==
    IF years = {} THEN 0
    ELSE LET y == CHOOSE y \in years : TRUE
         IN YearTotal(matched, y) + SumYearTotals(matched, years \ {y})

\* A DOUBLE quotient num / den of tenths, in lowest terms; NULL when there is
\* nothing to average.
NullDouble == [null |-> TRUE, num |-> 0, den |-> 1]

Quotient(num, den) == [null |-> FALSE, num |-> num \div Gcd(num, den), den |-> den \div Gcd(num, den)]

\* An AVG that divides by the number of years of the range.
AverageOverRange(matched, years, start_year, end_year) ==
    IF years = {} THEN NullDouble ELSE Quotient(SumYearTotals(matched, years), end_year - start_year + 1)

\* AVG(total_annual_rainfall) FROM YearlyTotals: over the years that have a group.
Average(matched, years, start_year, end_year) ==
    IF years = {} THEN NullDouble ELSE Quotient(SumYearTotals(matched, years), Cardinality(years))

RainfallFails(table, subdivision) == ~table.exists \/ Malformed(subdivision)

\* The one row of the outer SELECT, an aggregate without GROUP BY.
RainfallResult(table, subdivision, start_year, end_year) ==
    LET matched == RainWhere(table.rows, subdivision, start_year, end_year)
        years == {r.year : r \in Range(matched)}
    IN <<[average_annual_rainfall |-> Average(matched, years, start_year, end_year),
          source_url |-> AnyValue({r.source_url : r \in Range(matched)})]>>

\* return result.to_json(orient="records")
RainfallFormat(result) == MakeRet("json", result, <<>>, 0)

(***************************************************************************)
(* correlate_crop_and_climate.                                             *)
(***************************************************************************)
\* The years of a set in ascending order (ORDER BY year).
SortedYears(years) == CHOOSE f \in [1..Cardinality(years) -> years] : \A i, j \in DOMAIN f : i < j => f[i] < f[j]

CropWhere(rows, state, crop_name, start_year, end_year) == SelectSeq(rows, LAMBDA r : ILike(r.state, state) /\ ILike(r.crop, crop_name) /\ start_year <= r.year /\ r.year <= end_year)

YearProduction(matched, year) == SumSeq([i \in 1..Len(RowsOfYear(matched, year)) |-> RowsOfYear(matched, year)[i].production_tonnes.v])

CropQueryFails(table, state, crop_name) == ~table.exists \/ Malformed(state) \/ Malformed(crop_name)

CropQueryResult(table, state, crop_name, start_year, end_year) ==
    LET matched == CropWhere(table.rows, state, crop_name, start_year, end_year)
        order == SortedYears({r.year : r \in Range(matched)})
    IN [i \in 1..Len(order) |-> [year |-> order[i], total_production |-> YearProduction(matched, order[i]), source_url |-> AnyValue({r.source_url : r \in Range(RowsOfYear(matched, order[i]))})]]

ClimateQueryResult(table, subdivision, start_year, end_year) ==
    LET matched == RainWhere(table.rows, subdivision, start_year, end_year)
        order == SortedYears({r.year : r \in Range(matched)})
    IN [i \in 1..Len(order) |-> [year |-> order[i], total_annual_rainfall |-> YearTotal(matched, order[i]), source_url |-> AnyValue({r.source_url : r \in Range(RowsOfYear(matched, order[i]))})]]

\* json.dumps({"crop_production_trend": ..., "rainfall_trend": ...})
CorrelateFormat(crop_df, climate_df) == MakeRet("json", <<crop_df, climate_df>>, <<>>, 0)

(***************************************************************************)
(* A call of a query tool, step by step.                                   *)
(***************************************************************************)
\* A try block that begins after the connection is made.
TryCoversAfterConnect(at) == at \in {"execute", "execute2", "close", "format"}

\* The try block of each tool holds every step from duckdb.connect to the return.
TryCovers(at) == at \in {"connect", "execute", "execute2", "close", "format"}

\* Where an exception raised at step `at` goes.
Handler(at) == IF TryCovers(at) THEN "except" ELSE "propagated"

CanCall == q.pc = "idle"

CallTopCrops(states, years, top_ms) ==
    /\ CanCall
    /\ \E s \in states, y \in years, m \in top_ms :
          q' = [QIdle EXCEPT !.fn = "top_crops", !.pc = "connect", !.state = s, !.year = y, !.top_m = m]
    /\ UNCHANGED <<api, etl_vars>>

CallRainfall(subdivisions, years) ==
    /\ CanCall
    /\ \E s \in subdivisions, y1 \in years, y2 \in years :
          q' = [QIdle EXCEPT !.fn = "rainfall", !.pc = "connect", !.subdivision = s, !.year = y1, !.end_year = y2]
    /\ UNCHANGED <<api, etl_vars>>

CallCorrelate(crops, states, subdivisions, years) ==
    /\ CanCall
    /\ \E c \in crops, s \in states, d \in subdivisions, y1 \in years, y2 \in years :
          q' = [QIdle EXCEPT !.fn = "correlate", !.pc = "connect", !.crop_name = c, !.state = s, !.subdivision = d, !.year = y1, !.end_year = y2]
    /\ UNCHANGED <<api, etl_vars>>

\* con = duckdb.connect(database=DB_FILE, read_only=True): the file may be
\* missing or locked by a writer.
Connect ==
    /\ q.pc = "connect"
    /\ \/ q' = [q EXCEPT !.con = "open", !.pc = "execute"]
       \/ q' = [q EXCEPT !.fault = "connect", !.pc = Handler("connect")]
    /\ UNCHANGED <<api, etl_vars>>

\* result = con.execute(query).df(): the statement gives a result, or raises
\* (a text that does not parse, a missing table, any exception of the engine).
ExecuteTopCrops ==
    /\ q.pc = "execute" /\ q.fn = "top_crops"
    /\ \/ /\ ~TopCropsFails(db["agriculture_production"], q.state, q.year)
          /\ \E res \in TopCropsResults(db["agriculture_production"], q.state, q.year, q.top_m) :
                q' = [q EXCEPT !.result = res, !.stmts = @ + 1, !.pc = "close"]
       \/ q' = [q EXCEPT !.fault = "execute", !.pc = Handler("execute")]
    /\ UNCHANGED <<api, etl_vars>>

ExecuteRainfall ==
    /\ q.pc = "execute" /\ q.fn = "rainfall"
    /\ \/ /\ ~RainfallFails(db["climate_rainfall"], q.subdivision)
          /\ q' = [q EXCEPT !.result = RainfallResult(db["climate_rainfall"], q.subdivision, q.year, q.end_year), !.stmts = @ + 1, !.pc = "close"]
       \/ q' = [q EXCEPT !.fault = "execute", !.pc = Handler("execute")]
    /\ UNCHANGED <<api, etl_vars>>

\* crop_df = con.execute(crop_query).df()
ExecuteCropQuery ==
    /\ q.pc = "execute" /\ q.fn = "correlate"
    /\ \/ /\ ~CropQueryFails(db["agriculture_production"], q.state, q.crop_name)
          /\ q' = [q EXCEPT !.result = CropQueryResult(db["agriculture_production"], q.state, q.crop_name, q.year, q.end_year), !.stmts = @ + 1, !.pc = "execute2"]
       \/ q' = [q EXCEPT !.fault = "execute", !.pc = Handler("execute")]
    /\ UNCHANGED <<api, etl_vars>>

\* climate_df = con.execute(climate_query).df()
ExecuteClimateQuery ==
    /\ q.pc = "execute2" /\ q.fn = "correlate"
    /\ \/ /\ ~RainfallFails(db["climate_rainfall"], q.subdivision)
          /\ q' = [q EXCEPT !.result2 = ClimateQueryResult(db["climate_rainfall"], q.subdivision, q.year, q.end_year), !.stmts = @ + 1, !.pc = "close"]
       \/ q' = [q EXCEPT !.fault = "execute2", !.pc = Handler("execute2")]
    /\ UNCHANGED <<api, etl_vars>>

\* con.close()
Close ==
    /\ q.pc = "close"
    /\ q' = [q EXCEPT !.con = "closed", !.pc = "format"]
    /\ UNCHANGED <<api, etl_vars>>

\* The return of the try block.
Return ==
    /\ q.pc = "format"
    /\ q' = [q EXCEPT !.pc = "returned",
                      !.ret = CASE q.fn = "top_crops" -> TopCropsFormat(q.result, q.state, q.year)
                                [] q.fn = "rainfall" -> RainfallFormat(q.result)
                                [] OTHER -> CorrelateFormat(q.result, q.result2)]
    /\ UNCHANGED <<api, etl_vars>>

\* except Exception as e: return f"...{e}..." -- con.close() is not reached; the
\* connection object is left to the interpreter, which may or may not have
\* finalized it when the call returns.
Except ==
    /\ q.pc = "except"
    /\ \E c \in (IF q.con = "open" THEN {"open", "finalized"} ELSE {q.con}) :
          q' = [q EXCEPT !.pc = "returned", !.con = c, !.ret = MakeRet("error", <<>>, <<>>, 0)]
    /\ UNCHANGED <<api, etl_vars>>

\* The string goes back to the agent, which may call a tool again.
AgentResumes ==
    /\ q.pc = "returned"
    /\ q' = QIdle
    /\ UNCHANGED <<api, etl_vars>>

CallSteps == Connect \/ Close \/ Return \/ Except \/ AgentResumes

(***************************************************************************)
(* Databases the queries run on: the state a finished ETL run leaves.      *)
(***************************************************************************)
InitAfterEtl(feeds_agri, feeds_climate) ==
    /\ api \in [agriculture : feeds_agri, climate : feeds_climate]
    /\ Len(api.agriculture) > 0 /\ Len(api.climate) > 0
    /\ agri_records = PyList(api.agriculture)
    /\ climate_records = PyList(api.climate)
    /\ df_agri = transform_agri_data(api.agriculture, AgriUrl)
    /\ df_climate = transform_climate_data(api.climate, ClimateUrl)
    /\ ~df_agri.raised /\ ~df_climate.raised
    /\ etl_pc = "done"
    /\ load_idx = Len(TableNames) + 1
    /\ runs = 1
    /\ db = [t \in Range(TableNames) |-> IF t = "agriculture_production" THEN AgriTable(df_agri) ELSE ClimateTable(df_climate)]
    /\ db_before = EmptyDb
    /\ q = QIdle

AgriQueryRecord(state, crop, year, production) == [AgriBase EXCEPT !.state_name = state, !.crop = crop, !.crop_year = year, !.production_ = production]

\* Clean records of two states, two crops and two years, with equal and
\* unequal productions (every sum stays far inside INTEGER).
AgriQueryRecords ==
    {AgriQueryRecord(<<" ", "p", "B">>, <<"r", "i">>, <<"1", "0">>, <<"5">>),
     AgriQueryRecord(<<" ", "p", "B">>, <<"r", "i">>, <<"1", "0">>, <<"2", ".", "5">>),
     AgriQueryRecord(<<" ", "p", "B">>, <<"w", "h">>, <<"1", "0">>, <<"5">>),
     AgriQueryRecord(<<" ", "p", "B">>, <<"w", "h">>, <<"1", "0">>, <<"7", ".", "5">>),
     AgriQueryRecord(<<" ", "p", "B">>, <<"r", "i">>, <<"1", "1">>, <<"5">>),
     AgriQueryRecord(<<"h", "r">>, <<"w", "h">>, <<"1", "0">>, <<"2", ".", "5">>)}

\* Rows of two subdivisions and two years, complete and with readings missing.
ClimateQueryRows ==
    {ClimateRow(sub, year, RainWithNA({})) : sub \in {<<" ", "p", "B">>, <<"h", "r">>}, year \in {<<"1", "0">>, <<"1", "1">>}}
    \cup {ClimateRow(<<" ", "p", "B">>, <<"1", "0">>, RainWithNA({"jan", "feb"})), ClimateRow(<<"h", "r">>, <<"1", "1">>, RainWithNA({"dec"}))}

\* Patterns a caller passes: the same name in three cases, wildcards, a name
\* no row has, and a name with a quote in it.
NameArgs == {<<"p", "b">>, <<"P", "B">>, <<"P", "b">>, <<"p", "%">>, <<"%">>, <<"h", "b">>, <<"x", "'">>}

YearArgs == {10, 11}

InitNeverLoaded == InitWith({AgriFeedOne}, {ClimateFeedOne})

InitTopCrops == InitAfterEtl(SeqsUpTo(AgriQueryRecords, MaxRows), {ClimateFeedOne}) \/ InitNeverLoaded

NextTopCrops == CallTopCrops(NameArgs, YearArgs, 0..MaxTopM) \/ ExecuteTopCrops \/ CallSteps

SpecTopCrops == InitTopCrops /\ [][NextTopCrops]_vars

InitRainfall == InitAfterEtl({AgriFeedOne}, SeqsUpTo(ClimateQueryRows, MaxClimateRows)) \/ InitNeverLoaded

NextRainfall == CallRainfall(NameArgs, YearArgs) \/ ExecuteRainfall \/ CallSteps

SpecRainfall == InitRainfall /\ [][NextRainfall]_vars

InitQuery == InitAfterEtl(AgriFeedsSmall, ClimateFeedsSmall) \/ InitNeverLoaded

NextQuery ==
    \/ CallTopCrops({<<"p", "b">>, <<"x", "'">>}, {10}, {1})
    \/ CallRainfall({<<"p", "b">>, <<"x", "'">>}, YearArgs)
    \/ CallCorrelate({<<"r", "i">>}, {<<"p", "b">>}, {<<"p", "b">>, <<"x", "'">>}, YearArgs)
    \/ ExecuteTopCrops \/ ExecuteRainfall \/ ExecuteCropQuery \/ ExecuteClimateQuery
    \/ CallSteps

SpecQuery == InitQuery /\ [][NextQuery]_vars

(***************************************************************************)
(* Claims about the query tools.                                           *)
(***************************************************************************)
Succeeded(fn) == q.fn = fn /\ q.pc = "returned" /\ q.fault = "none"

\* The rows of agriculture_production a call is about.
C1_Rows == SelectSeq(db["agriculture_production"].rows, LAMBDA r : ILike(r.state, q.state) /\ r.year = q.year)

C1_Crops == {r.crop : r \in Range(C1_Rows)}

C1_Tenths(crop) == SumSeq([i \in 1..Len(SelectSeq(C1_Rows, LAMBDA r : r.crop = crop)) |-> SelectSeq(C1_Rows, LAMBDA r : r.crop = crop)[i].production_tonnes.v])

\* C1: a call with a positive top_m that succeeds and matches a row returns
\* records: at most top_m, one for each of the first distinct crops of the rows
\* whose state matches and whose year is the argument, each total the integer
\* next to the crop's summed production, no total larger than one before it,
\* and each with a source_url.
C1_TopCrops ==
    Succeeded("top_crops") =>
        /\ (q.top_m > 0 /\ C1_Rows # <<>>) => q.ret.kind = "json"
        /\ q.ret.kind = "json" =>
              LET recs == q.ret.records
              IN /\ Len(recs) <= q.top_m
                 /\ Len(recs) = Min(q.top_m, Cardinality(C1_Crops))
                 /\ \A i, j \in 1..Len(recs) : i # j => recs[i].crop # recs[j].crop
                 /\ \A i \in 1..Len(recs) :
                       /\ recs[i].crop \in C1_Crops
                       /\ 10 * recs[i].total_production - C1_Tenths(recs[i].crop) \in -9..9
                       /\ recs[i].source_url # SqlNull
                 /\ \A i \in 1..(Len(recs) - 1) : recs[i].total_production >= recs[i + 1].total_production

\* Two crops match, top_m is 1, and the crop with the larger total is returned.
C1_Witness ==
    /\ Succeeded("top_crops")
    /\ q.ret.kind = "json"
    /\ q.top_m = 1
    /\ Cardinality(C1_Crops) = 2
    /\ Len(q.ret.records) = 1
    /\ \E c \in C1_Crops : C1_Tenths(c) < C1_Tenths(q.ret.records[1].crop)

\* The arguments that differ from the call's state only in letter case.
CaseVariants(state) == {s \in NameArgs : LowerStr(s) = LowerStr(state)}

\* What a call that succeeds may return.
TopCropsReturns(state, year, top_m) ==
    IF TopCropsFails(db["agriculture_production"], state, year) THEN {}
    ELSE {TopCropsFormat(res, state, year) : res \in TopCropsResults(db["agriculture_production"], state, year, top_m)}

\* C5 as stated: what a call returns is what the call with the state in another
\* case returns, whether or not a row matches.
C5_SameReturn ==
    (Succeeded("top_crops") /\ q.top_m > 0) =>
        \A s \in CaseVariants(q.state) : q.ret \in TopCropsReturns(s, q.year, q.top_m)

\* C5, amended: records returned for a state are records the call with the
\* state in another case may return (the same, up to the engine's order among
\* equal totals); when no record is returned, both calls return the no-data
\* sentence, each naming the state as it was passed.
C5_SameReturnUpToEcho ==
    Succeeded("top_crops") =>
        \A s \in CaseVariants(q.state) :
            /\ q.ret.kind = "json" => q.ret \in TopCropsReturns(s, q.year, q.top_m)
            /\ q.ret.kind = "no_data" => [q.ret EXCEPT !.state = s] \in TopCropsReturns(s, q.year, q.top_m)

\* A lower-case state returned records that the title-case state returns too.
C5_Witness ==
    /\ Succeeded("top_crops")
    /\ q.ret.kind = "json"
    /\ q.state = <<"p", "b">>
    /\ <<"P", "b">> \in CaseVariants(q.state)
    /\ q.ret \in TopCropsReturns(<<"P", "b">>, q.year, q.top_m)

\* The rows of climate_rainfall a call is about, and the years they are of.
C4_Rows == SelectSeq(db["climate_rainfall"].rows, LAMBDA r : ILike(r.subdivision, q.subdivision) /\ q.year <= r.year /\ r.year <= q.end_year)

C4_Years == {r.year : r \in Range(C4_Rows)}

C4_Tenths == SumSeq([i \in 1..Len(C4_Rows) |-> C4_Rows[i].rainfall_mm.v])

\* C4 as stated: one record; over a single year its value is the sum of the
\* matching rows' rainfall (of no rows, 0), and over a range the mean of the
\* sums of the years that have rows.
C4_AverageIsMeanOfSums ==
    Succeeded("rainfall") =>
        /\ Len(q.ret.records) = 1
        /\ LET avg == q.ret.records[1].average_annual_rainfall
           IN /\ q.year = q.end_year => (~avg.null /\ avg.den = 1 /\ avg.num = C4_Tenths)
              /\ C4_Years # {} => (~avg.null /\ avg.num * Cardinality(C4_Years) = C4_Tenths * avg.den)

\* C4, amended: one record; when a row matches, its value is the mean of the
\* per-year sums over the years of the range that have a matching row (over a
\* single year, that year's sum); when none matches, the value and the
\* source_url are null.
C4_AverageOrNull ==
    Succeeded("rainfall") =>
        /\ Len(q.ret.records) = 1
        /\ LET avg == q.ret.records[1].average_annual_rainfall
           IN IF C4_Years = {}
              THEN avg.null /\ q.ret.records[1].source_url = SqlNull
              ELSE /\ ~avg.null
                   /\ avg.num * Cardinality(C4_Years) = C4_Tenths * avg.den
                   /\ q.year = q.end_year => (avg.den = 1 /\ avg.num = C4_Tenths)

\* A range of two years of which one has rows: the value is that year's sum.
C4_Witness ==
    /\ Succeeded("rainfall")
    /\ q.year < q.end_year
    /\ Cardinality(C4_Years) = 1
    /\ ~q.ret.records[1].average_annual_rainfall.null
    /\ q.ret.records[1].average_annual_rainfall.num = C4_Tenths
    /\ C4_Tenths > 0

\* C8: no step of a tool raises past the tool, and a call in which connecting
\* or a statement failed returns an error string.
C8_FaultsAreReturned ==
    /\ q.pc # "propagated"
    /\ (q.pc = "returned" /\ q.fault # "none") => q.ret.kind = "error"

\* Calls that failed at each step and returned the error string.
C8_Witness ==
    /\ q.fn = "correlate"
    /\ q.pc = "returned"
    /\ q.fault = "execute2"
    /\ q.ret.kind = "error"

\* C9: when a call has returned, the connection it opened is closed.
C9_ConnectionClosed == q.pc = "returned" => q.con # "open"

====
